---- MODULE Spec2Model ----
(***************************************************************************)
(* soundtest: a playback thread that owns an ALSA Device and runs its      *)
(* write/poll loop, and a generator (main) thread that refills a shared,   *)
(* mutex-protected VecDeque when it is told that data was consumed.        *)
(*                                                                         *)
(* Samples are represented by their index in the signal: sample k is the   *)
(* k-th value signal.next() returns.                                       *)
(***************************************************************************)
EXTENDS Integers, Sequences, FiniteSets, TLC

(***************************************************************************)
(* Bounds of the model.                                                    *)
(***************************************************************************)
\* The driver answers get_buffer_size with 1..MaxBufferSize frames.
MaxBufferSize == 2
\* The driver answers get_period_size with 1..MaxPeriodSize frames.
MaxPeriodSize == 2
\* VecDeque::with_capacity(n) allocates n..n+CapSlack slots of capacity.
CapSlack == 1
\* Size of the shared buffer (6_000 in main, scaled down).
SharedSize == 3
\* The hardware accepts at most MaxWrites writes.
MaxWrites == 2
\* The hardware answers would-block at most MaxEagain times.
MaxEagain == 1
\* Sizes in frames that NegotiationSpec lets the driver have answered.
MaxFrames == 7

(***************************************************************************)
(* Results of the driver calls.                                            *)
(***************************************************************************)
EAGAIN == 11
\* The channel counts a DeviceConfig is built with: mono (main) and stereo.
ChannelCounts == {1, 2}
\* Negative results of snd_pcm_writei other than -EAGAIN (-EPIPE).
WriteErrors == {-32}

Min(a, b) == IF a < b THEN a ELSE b

(***************************************************************************)
(* std::collections::VecDeque<f32> as the program uses it: the elements    *)
(* front to back (buf) and the capacity (cap).                             *)
(***************************************************************************)
WithCapacity(n, slack) == [buf |-> <<>>, cap |-> n + slack]

Capacity(d) == d.cap

Length(d) == Len(d.buf)

\* push_back: grows the storage when it is full, then stores at the back.
PushBack(d, x) ==
    IF Len(d.buf) = d.cap
    THEN [buf |-> Append(d.buf, x), cap |-> IF d.cap = 0 THEN 1 ELSE 2 * d.cap]
    ELSE [d EXCEPT !.buf = Append(d.buf, x)]

\* Variant of PopFront: the element leaves at the back (pop_back).
PopFront_back(d) ==
    IF d.buf = <<>> THEN d
    ELSE [d EXCEPT !.buf = SubSeq(d.buf, 1, Len(d.buf) - 1)]

\* pop_front: None on an empty deque, else the front element leaves.
PopFront(d) ==
    IF d.buf = <<>> THEN d ELSE [d EXCEPT !.buf = Tail(d.buf)]

RECURSIVE PopFrontN(_, _)
PopFrontN(d, n) == IF n <= 0 THEN d ELSE PopFrontN(PopFront(d), n - 1)

RECURSIVE PushBackAll(_, _)
PushBackAll(d, s) ==
    IF s = <<>> THEN d ELSE PushBackAll(PushBack(d, Head(s)), Tail(s))

\* The ring storage of a deque of capacity cap has cap slots (the head+len
\* layout of VecDeque).
Slots(d) == d.cap

\* The slot of the front element after n elements left at the front.
WrapAdd(head, n, slots) == IF slots = 0 THEN 0 ELSE (head + n) % slots

\* as_slices of a deque whose front element sits in slot head: the
\* contiguous run from the head to the end of the storage, and the
\* wrapped-around rest.
AsSlices(d, head) ==
    LET first == Min(Len(d.buf), Slots(d) - head)
    IN  <<SubSeq(d.buf, 1, first), SubSeq(d.buf, first + 1, Len(d.buf))>>

\* signal.next() called n times starting at sample index from.
Synthesize(from, n) == [i \in 1..n |-> from + i - 1]

(***************************************************************************)
(* The calls of Device::with_config in program order.                      *)
(***************************************************************************)
WithConfigSteps ==
    << "snd_pcm_open", "hw_params_malloc", "hw_params_any", "set_channels",
       "set_rate_near", "set_rate_resample", "set_format", "set_access",
       "set_buffer_time_near", "set_period_time_near", "hw_params",
       "get_buffer_size", "get_period_size", "sw_params_malloc",
       "sw_params_current", "set_start_threshold", "set_avail_min",
       "sw_params", "snd_pcm_prepare" >>

NumSteps == Len(WithConfigSteps)

VARIABLES
    \* ---- DeviceConfig and the allocator
    channels,        \* DeviceConfig.channels
    vd_slack,        \* extra capacity VecDeque::with_capacity hands out
    \* ---- Device::with_config
    wc_step,         \* index of the next call of with_config
    handle_open,     \* snd_pcm_open succeeded, handle never released
    handle_drops,    \* times Drop for Device released the handle
    hw_params,       \* "none", "alloc", "freed": HwParams
    sw_params,       \* "none", "alloc", "freed": SwParams
    hw_committed,    \* snd_pcm_hw_params succeeded
    sw_committed,    \* snd_pcm_sw_params succeeded
    prepared,        \* snd_pcm_prepare succeeded
    buffer_size,     \* Device.buffer_size
    period_size,     \* Device.period_size
    start_threshold, \* value handed to set_start_threshold, -1 before
    avail_min,       \* value handed to set_avail_min, -1 before
    \* ---- Device::run, playback thread
    pb_pc,           \* position of the playback thread
    user_buffer,     \* Device.user_buffer
    user_head,       \* slot of the ring storage that holds its front element
    wanted,          \* local wanted of run (line 101)
    ret,             \* result of the last snd_pcm_writei
    fatal,           \* "none", "write", "poll": which panic of run fired
    n_attempts,      \* calls of snd_pcm_writei
    n_ok,            \* calls of snd_pcm_writei that returned >= 0
    n_eagain,        \* calls of snd_pcm_writei that returned -EAGAIN
    n_polls,         \* calls of snd_pcm_wait
    hw_accepted,     \* samples the hardware has taken from the staging buffer
    hw_oob,          \* the hardware was made to read past the end of a slice
    \* ---- data callback (closure of main)
    cb_wanted,       \* parameter wanted of the running or last callback
    cb_missing,      \* "Not enough data!!" lines of the running or last callback
    cb_calls,        \* invocations of the callback
    n_sent,          \* tx.send calls
    tx_alive,        \* the Sender has not been dropped
    \* ---- shared state
    shared,          \* the Arc<Mutex<VecDeque<f32>>> contents
    mutex,           \* "free", "playback", "generator"
    chan,            \* messages in the mpsc channel, oldest first
    \* ---- generator (main thread)
    gen_pc,          \* position of the main thread
    signal_next,     \* index of the sample signal.next() returns next
    getting,         \* local getting of the generation loop (0 outside it)
    n_recv,          \* messages rx.recv returned
    last_msg,        \* the message rx.recv returned last (0 before)
    n_refill,        \* completed refills
    proc_exited      \* the process has terminated

cfg_vars == <<channels, vd_slack>>
wc_vars == <<wc_step, handle_open, hw_params, sw_params, hw_committed,
             sw_committed, prepared, buffer_size, period_size,
             start_threshold, avail_min>>
hw_vars == <<ret, n_attempts, n_ok, n_eagain, n_polls>>
sink_vars == <<hw_accepted, hw_oob>>
cb_vars == <<cb_wanted, cb_missing, cb_calls>>
gen_vars == <<gen_pc, signal_next, getting, n_recv, last_msg, n_refill>>

vars == <<channels, vd_slack,
          wc_step, handle_open, handle_drops, hw_params, sw_params,
          hw_committed, sw_committed, prepared, buffer_size, period_size,
          start_threshold, avail_min,
          pb_pc, user_buffer, user_head, wanted, ret, fatal,
          n_attempts, n_ok, n_eagain, n_polls, hw_accepted, hw_oob,
          cb_wanted, cb_missing, cb_calls, n_sent, tx_alive,
          shared, mutex, chan,
          gen_pc, signal_next, getting, n_recv, last_msg, n_refill,
          proc_exited>>

(***************************************************************************)
(* main, lines 19-29: the channel exists, the shared buffer has been       *)
(* filled with the first SharedSize samples, both threads are about to     *)
(* start.                                                                  *)
(***************************************************************************)
InitialFill(slack) ==
    PushBackAll(WithCapacity(SharedSize, slack), Synthesize(0, SharedSize))

Init ==
    /\ channels \in ChannelCounts
    /\ vd_slack \in 0..CapSlack
    /\ wc_step = 1
    /\ handle_open = FALSE
    /\ handle_drops = 0
    /\ hw_params = "none"
    /\ sw_params = "none"
    /\ hw_committed = FALSE
    /\ sw_committed = FALSE
    /\ prepared = FALSE
    /\ buffer_size = 0
    /\ period_size = 0
    /\ start_threshold = -1
    /\ avail_min = -1
    /\ pb_pc = "with_config"
    /\ user_buffer = WithCapacity(0, 0)
    /\ user_head = 0
    /\ wanted = 0
    /\ ret = 0
    /\ fatal = "none"
    /\ n_attempts = 0
    /\ n_ok = 0
    /\ n_eagain = 0
    /\ n_polls = 0
    /\ hw_accepted = <<>>
    /\ hw_oob = FALSE
    /\ cb_wanted = 0
    /\ cb_missing = 0
    /\ cb_calls = 0
    /\ n_sent = 0
    /\ tx_alive = TRUE
    /\ shared = InitialFill(vd_slack)
    /\ mutex = "free"
    /\ chan = <<>>
    /\ gen_pc = "recv"
    /\ signal_next = SharedSize
    /\ getting = 0
    /\ n_recv = 0
    /\ last_msg = 0
    /\ n_refill = 0
    /\ proc_exited = FALSE

(***************************************************************************)
(* Device::with_config, one driver call per step.                          *)
(***************************************************************************)
StepName == WithConfigSteps[wc_step]

\* Variant of StartThreshold: rounds up to a whole number of periods.
StartThreshold_ceil(b, p) == ((b + p - 1) \div p) * p

\* line 78
StartThreshold(b, p) == (b \div p) * p

\* The call at wc_step returns >= 0.
WithConfigOk ==
    /\ ~proc_exited
    /\ pb_pc = "with_config"
    /\ handle_open' = (handle_open \/ StepName = "snd_pcm_open")
    /\ hw_committed' = (hw_committed \/ StepName = "hw_params")
    /\ sw_committed' = (sw_committed \/ StepName = "sw_params")
    /\ prepared' = (prepared \/ StepName = "snd_pcm_prepare")
    /\ IF StepName = "get_buffer_size"
       THEN buffer_size' \in 1..MaxBufferSize
       ELSE buffer_size' = buffer_size
    /\ IF StepName = "get_period_size"
       THEN period_size' \in 1..MaxPeriodSize
       ELSE period_size' = period_size
    /\ start_threshold' = IF StepName = "set_start_threshold"
                          THEN StartThreshold(buffer_size, period_size)
                          ELSE start_threshold
    /\ avail_min' = IF StepName = "set_avail_min" THEN period_size
                    ELSE avail_min
    \* HwParams lives until with_config returns, SwParams until the end of
    \* the unsafe block that ends with snd_pcm_prepare.
    /\ hw_params' = CASE StepName = "hw_params_malloc" -> "alloc"
                      [] StepName = "snd_pcm_prepare" -> "freed"
                      [] OTHER -> hw_params
    /\ sw_params' = CASE StepName = "sw_params_malloc" -> "alloc"
                      [] StepName = "snd_pcm_prepare" -> "freed"
                      [] OTHER -> sw_params
    /\ IF wc_step = NumSteps
       THEN /\ user_buffer' = WithCapacity(buffer_size, vd_slack)
            /\ pb_pc' = "prefill"
            /\ wc_step' = wc_step
       ELSE /\ wc_step' = wc_step + 1
            /\ UNCHANGED <<user_buffer, pb_pc>>
    /\ UNCHANGED <<cfg_vars, sink_vars,
                   handle_drops, user_head, wanted, fatal, hw_vars,
                   cb_vars,
                   n_sent, tx_alive, shared, mutex, chan, gen_vars,
                   proc_exited>>

\* Variant of WithConfigErr: the negative result is dropped and with_config
\* goes on with the next call.
WithConfigErr_ignored ==
    /\ ~proc_exited
    /\ pb_pc = "with_config"
    /\ IF wc_step = NumSteps
       THEN /\ user_buffer' = WithCapacity(buffer_size, vd_slack)
            /\ pb_pc' = "prefill"
            /\ wc_step' = wc_step
       ELSE /\ wc_step' = wc_step + 1
            /\ UNCHANGED <<user_buffer, pb_pc>>
    /\ UNCHANGED <<cfg_vars, sink_vars, handle_open, handle_drops, hw_params,
                   sw_params, hw_committed, sw_committed, prepared,
                   buffer_size, period_size, start_threshold, avail_min,
                   user_head, wanted, fatal, hw_vars, cb_vars, n_sent,
                   tx_alive, shared, mutex, chan, gen_vars, proc_exited>>

\* The call at wc_step returns < 0: `?` returns the error, the RAII
\* wrappers allocated so far are dropped, the raw handle is not touched;
\* unwrap (main.rs:39) panics and the thread's closure, with tx, is dropped.
WithConfigErr ==
    /\ ~proc_exited
    /\ pb_pc = "with_config"
    /\ hw_params' = IF hw_params = "alloc" THEN "freed" ELSE hw_params
    /\ sw_params' = IF sw_params = "alloc" THEN "freed" ELSE sw_params
    /\ pb_pc' = "init_failed"
    /\ tx_alive' = FALSE
    /\ UNCHANGED <<cfg_vars, sink_vars,
                   wc_step, handle_open, handle_drops, hw_committed,
                   sw_committed, prepared, buffer_size, period_size,
                   start_threshold, avail_min, user_buffer, user_head,
                   wanted, fatal,
                   hw_vars, cb_vars, n_sent, shared, mutex, chan, gen_vars,
                   proc_exited>>

(***************************************************************************)
(* Device::run.                                                            *)
(***************************************************************************)
\* Variant of Prefill: asks for capacity times channels samples.
Prefill_times_channels ==
    /\ ~proc_exited
    /\ pb_pc = "prefill"
    /\ wanted' = Capacity(user_buffer) * channels
    /\ cb_wanted' = Capacity(user_buffer) * channels
    /\ cb_missing' = 0
    /\ cb_calls' = cb_calls + 1
    /\ pb_pc' = "cb_lock"
    /\ UNCHANGED <<cfg_vars, sink_vars, wc_vars, handle_drops, user_buffer,
                   user_head, fatal, hw_vars, n_sent, tx_alive, shared, mutex,
                   chan, gen_vars, proc_exited>>

\* Variant of Prefill: asks for buffer_size samples instead of the capacity.
Prefill_buffer_size ==
    /\ ~proc_exited
    /\ pb_pc = "prefill"
    /\ wanted' = buffer_size
    /\ cb_wanted' = buffer_size
    /\ cb_missing' = 0
    /\ cb_calls' = cb_calls + 1
    /\ pb_pc' = "cb_lock"
    /\ UNCHANGED <<cfg_vars, sink_vars,
                   wc_vars, handle_drops, user_buffer, user_head,
                   fatal,
                   hw_vars, n_sent, tx_alive, shared, mutex, chan, gen_vars,
                   proc_exited>>

\* lines 101-102: the first call of the callback asks for a full buffer.
Prefill ==
    /\ ~proc_exited
    /\ pb_pc = "prefill"
    /\ wanted' = Capacity(user_buffer)
    /\ cb_wanted' = Capacity(user_buffer)
    /\ cb_missing' = 0
    /\ cb_calls' = cb_calls + 1
    /\ pb_pc' = "cb_lock"
    /\ UNCHANGED <<cfg_vars, sink_vars,
                   wc_vars, handle_drops, user_buffer, user_head,
                   fatal,
                   hw_vars, n_sent, tx_alive, shared, mutex, chan, gen_vars,
                   proc_exited>>

\* line 106-108: the count handed to snd_pcm_writei is the length of the
\* first slice of as_slices.
OfferedFrames == Len(AsSlices(user_buffer, user_head)[1])

\* snd_pcm_writei that accepts r frames reads r * channels samples at the
\* pointer it was given, the start of the first slice; what it reads of
\* the slice is recorded, a read past its end only noted.
HardwareReads(r) ==
    LET slice == AsSlices(user_buffer, user_head)[1]
    IN  SubSeq(slice, 1, Min(r * channels, Len(slice)))

\* Variant of WriteOk: one sample too few is popped.
WriteOk_short ==
    /\ ~proc_exited
    /\ pb_pc = "write"
    /\ n_ok < MaxWrites
    /\ \E r \in 0..OfferedFrames :
         /\ (OfferedFrames > 0 => r > 0)
         /\ ret' = r
         /\ hw_accepted' = hw_accepted \o HardwareReads(r)
         /\ hw_oob' = (hw_oob \/ r * channels > OfferedFrames)
         /\ user_buffer' = PopFrontN(user_buffer, r - 1)
         /\ user_head' = WrapAdd(user_head, r, Slots(user_buffer))
         /\ cb_wanted' = r
    /\ n_attempts' = n_attempts + 1
    /\ n_ok' = n_ok + 1
    /\ cb_missing' = 0
    /\ cb_calls' = cb_calls + 1
    /\ pb_pc' = "cb_lock"
    /\ UNCHANGED <<cfg_vars,
                   wc_vars, handle_drops, wanted, fatal, n_eagain,
                   n_polls, n_sent, tx_alive, shared, mutex, chan, gen_vars,
                   proc_exited>>

\* Variant of WriteOk: the callback is asked to fill the buffer up again.
WriteOk_topup ==
    /\ ~proc_exited
    /\ pb_pc = "write"
    /\ n_ok < MaxWrites
    /\ \E r \in 0..OfferedFrames :
         /\ (OfferedFrames > 0 => r > 0)
         /\ ret' = r
         /\ hw_accepted' = hw_accepted \o HardwareReads(r)
         /\ hw_oob' = (hw_oob \/ r * channels > OfferedFrames)
         /\ user_buffer' = PopFrontN(user_buffer, r)
         /\ user_head' = WrapAdd(user_head, r, Slots(user_buffer))
         /\ cb_wanted' = Capacity(user_buffer) - (Length(user_buffer) - r)
    /\ n_attempts' = n_attempts + 1
    /\ n_ok' = n_ok + 1
    /\ cb_missing' = 0
    /\ cb_calls' = cb_calls + 1
    /\ pb_pc' = "cb_lock"
    /\ UNCHANGED <<cfg_vars, wc_vars, handle_drops, wanted, fatal, n_eagain,
                   n_polls, n_sent, tx_alive, shared, mutex, chan, gen_vars,
                   proc_exited>>

\* lines 108-125, write accepted: snd_pcm_writei returns r frames, r samples
\* are popped from the front and the callback is called for r more.
WriteOk ==
    /\ ~proc_exited
    /\ pb_pc = "write"
    /\ n_ok < MaxWrites
    /\ \E r \in 0..OfferedFrames :
         /\ (OfferedFrames > 0 => r > 0)
         /\ ret' = r
         /\ hw_accepted' = hw_accepted \o HardwareReads(r)
         /\ hw_oob' = (hw_oob \/ r * channels > OfferedFrames)
         /\ user_buffer' = PopFrontN(user_buffer, r)
         /\ user_head' = WrapAdd(user_head, r, Slots(user_buffer))
         /\ cb_wanted' = r
    /\ n_attempts' = n_attempts + 1
    /\ n_ok' = n_ok + 1
    /\ cb_missing' = 0
    /\ cb_calls' = cb_calls + 1
    /\ pb_pc' = "cb_lock"
    /\ UNCHANGED <<cfg_vars,
                   wc_vars, handle_drops, wanted, fatal, n_eagain,
                   n_polls, n_sent, tx_alive, shared, mutex, chan, gen_vars,
                   proc_exited>>

\* Variant of WriteEagain: the front sample is discarded before waiting.
WriteEagain_discard ==
    /\ ~proc_exited
    /\ pb_pc = "write"
    /\ n_eagain < MaxEagain
    /\ ret' = -EAGAIN
    /\ n_attempts' = n_attempts + 1
    /\ n_eagain' = n_eagain + 1
    /\ user_buffer' = PopFront(user_buffer)
    /\ user_head' = WrapAdd(user_head, 1, Slots(user_buffer))
    /\ pb_pc' = "wait"
    /\ UNCHANGED <<cfg_vars, sink_vars,
                   wc_vars, handle_drops, wanted,
                   fatal, n_ok, n_polls, cb_vars, n_sent, tx_alive, shared,
                   mutex, chan, gen_vars, proc_exited>>

\* lines 108-112, would block: snd_pcm_writei returns -EAGAIN and the
\* thread goes to snd_pcm_wait.
WriteEagain ==
    /\ ~proc_exited
    /\ pb_pc = "write"
    /\ n_eagain < MaxEagain
    /\ ret' = -EAGAIN
    /\ n_attempts' = n_attempts + 1
    /\ n_eagain' = n_eagain + 1
    /\ pb_pc' = "wait"
    /\ UNCHANGED <<cfg_vars, sink_vars,
                   wc_vars, handle_drops, user_buffer, user_head,
                   wanted,
                   fatal, n_ok, n_polls, cb_vars, n_sent, tx_alive, shared,
                   mutex, chan, gen_vars, proc_exited>>

\* Variant of WaitReady: the callback is called after the wait.
WaitReady_callback ==
    /\ ~proc_exited
    /\ pb_pc = "wait"
    /\ n_polls' = n_polls + 1
    /\ cb_wanted' = 0
    /\ cb_missing' = 0
    /\ cb_calls' = cb_calls + 1
    /\ pb_pc' = "cb_lock"
    /\ UNCHANGED <<cfg_vars, sink_vars, wc_vars, handle_drops, user_buffer,
                   user_head, wanted, ret, fatal, n_attempts, n_ok, n_eagain,
                   n_sent, tx_alive, shared, mutex, chan, gen_vars,
                   proc_exited>>

\* lines 112-114: snd_pcm_wait returns >= 0, continue with the next write.
WaitReady ==
    /\ ~proc_exited
    /\ pb_pc = "wait"
    /\ n_polls' = n_polls + 1
    /\ pb_pc' = "write"
    /\ UNCHANGED <<cfg_vars, sink_vars,
                   wc_vars, handle_drops, user_buffer, user_head,
                   wanted, ret,
                   fatal, n_attempts, n_ok, n_eagain, cb_vars,
                   n_sent, tx_alive, shared, mutex, chan, gen_vars,
                   proc_exited>>

\* line 113: snd_pcm_wait returns < 0 and run panics. Unwinding drops the
\* callback (with tx) and the Device (Drop for Device, lines 131-138).
WaitFail ==
    /\ ~proc_exited
    /\ pb_pc = "wait"
    /\ n_polls' = n_polls + 1
    /\ fatal' = "poll"
    /\ pb_pc' = "panicked"
    /\ tx_alive' = FALSE
    /\ handle_drops' = handle_drops + 1
    /\ UNCHANGED <<cfg_vars, sink_vars,
                   wc_vars, user_buffer, user_head, wanted, ret,
                   n_attempts, n_ok, n_eagain, cb_vars, n_sent, shared,
                   mutex, chan, gen_vars, proc_exited>>

\* Variant of WriteError: the Sender outlives the panicking thread.
WriteError_keeps_tx ==
    /\ ~proc_exited
    /\ pb_pc = "write"
    /\ ret' \in WriteErrors
    /\ n_attempts' = n_attempts + 1
    /\ fatal' = "write"
    /\ pb_pc' = "panicked"
    /\ handle_drops' = handle_drops + 1
    /\ UNCHANGED <<cfg_vars, sink_vars,
                   wc_vars, user_buffer, user_head, wanted, n_ok,
                   n_eagain,
                   n_polls, cb_vars, n_sent, tx_alive, shared, mutex, chan,
                   gen_vars, proc_exited>>

\* lines 117-119: snd_pcm_writei returns another negative result and run
\* panics. Unwinding drops the callback (with tx) and the Device.
WriteError ==
    /\ ~proc_exited
    /\ pb_pc = "write"
    /\ ret' \in WriteErrors
    /\ n_attempts' = n_attempts + 1
    /\ fatal' = "write"
    /\ pb_pc' = "panicked"
    /\ tx_alive' = FALSE
    /\ handle_drops' = handle_drops + 1
    /\ UNCHANGED <<cfg_vars, sink_vars,
                   wc_vars, user_buffer, user_head, wanted, n_ok,
                   n_eagain,
                   n_polls, cb_vars, n_sent, shared, mutex, chan, gen_vars,
                   proc_exited>>

(***************************************************************************)
(* The data callback, main.rs lines 42-53.                                 *)
(***************************************************************************)
\* Variant of CbDrain: a missing sample is replaced by silence (-1).
CbDrain_silence ==
    /\ ~proc_exited
    /\ pb_pc = "cb_lock"
    /\ mutex = "free"
    /\ mutex' = "playback"
    /\ LET n == Min(cb_wanted, Length(shared))
       IN  /\ user_buffer' =
                PushBackAll(user_buffer,
                            SubSeq(shared.buf, 1, n)
                              \o [i \in 1..(cb_wanted - n) |-> -1])
           /\ shared' = PopFrontN(shared, n)
           /\ user_head' = IF Capacity(user_buffer') = Capacity(user_buffer)
                           THEN user_head ELSE 0
           /\ cb_missing' = cb_wanted - n
    /\ pb_pc' = "cb_send"
    /\ UNCHANGED <<cfg_vars, sink_vars,
                   wc_vars, handle_drops, wanted, fatal, hw_vars,
                   cb_wanted, cb_calls, n_sent, tx_alive, chan,
                   gen_vars, proc_exited>>

\* lines 43-50: t_buffer.lock(), then wanted times: move the front sample of
\* the shared buffer to the back of the queue, or print when there is none.
CbDrain ==
    /\ ~proc_exited
    /\ pb_pc = "cb_lock"
    /\ mutex = "free"
    /\ mutex' = "playback"
    /\ LET n == Min(cb_wanted, Length(shared))
       IN  /\ user_buffer' = PushBackAll(user_buffer, SubSeq(shared.buf, 1, n))
           /\ shared' = PopFrontN(shared, n)
           /\ user_head' = IF Capacity(user_buffer') = Capacity(user_buffer)
                           THEN user_head ELSE 0
           /\ cb_missing' = cb_wanted - n
    /\ pb_pc' = "cb_send"
    /\ UNCHANGED <<cfg_vars, sink_vars,
                   wc_vars, handle_drops, wanted, fatal, hw_vars,
                   cb_wanted, cb_calls, n_sent, tx_alive, chan,
                   gen_vars, proc_exited>>

\* Variant of CbSend: nothing is sent when a sample was missing.
CbSend_only_if_filled ==
    /\ ~proc_exited
    /\ pb_pc = "cb_send"
    /\ IF cb_missing > 0
       THEN UNCHANGED <<chan, n_sent>>
       ELSE /\ chan' = Append(chan, n_sent + 1)
            /\ n_sent' = n_sent + 1
    /\ pb_pc' = "cb_return"
    /\ UNCHANGED <<cfg_vars, sink_vars,
                   wc_vars, handle_drops, user_buffer, user_head,
                   wanted,
                   fatal, hw_vars, cb_vars, tx_alive, shared, mutex,
                   gen_vars, proc_exited>>

\* line 52: tx.send(Message::WantMoreData); the channel is unbounded. A
\* message is represented by its position in the order of sends.
CbSend ==
    /\ ~proc_exited
    /\ pb_pc = "cb_send"
    /\ chan' = Append(chan, n_sent + 1)
    /\ n_sent' = n_sent + 1
    /\ pb_pc' = "cb_return"
    /\ UNCHANGED <<cfg_vars, sink_vars,
                   wc_vars, handle_drops, user_buffer, user_head,
                   wanted,
                   fatal, hw_vars, cb_vars, tx_alive, shared, mutex,
                   gen_vars, proc_exited>>

\* Variant of CbReturn: the closure returns without releasing the lock.
CbReturn_keeps_lock ==
    /\ ~proc_exited
    /\ pb_pc = "cb_return"
    /\ pb_pc' = "write"
    /\ UNCHANGED <<cfg_vars, sink_vars, wc_vars, handle_drops, user_buffer,
                   user_head, wanted, fatal, hw_vars, cb_vars, n_sent,
                   tx_alive, shared, mutex, chan, gen_vars, proc_exited>>

\* line 53: the closure returns and the MutexGuard is dropped.
CbReturn ==
    /\ ~proc_exited
    /\ pb_pc = "cb_return"
    /\ mutex' = "free"
    /\ pb_pc' = "write"
    /\ UNCHANGED <<cfg_vars, sink_vars,
                   wc_vars, handle_drops, user_buffer, user_head,
                   wanted,
                   fatal, hw_vars, cb_vars, n_sent, tx_alive, shared, chan,
                   gen_vars, proc_exited>>

(***************************************************************************)
(* The generation loop of the main thread, main.rs lines 56-70.            *)
(***************************************************************************)
pb_vars == <<pb_pc, user_buffer, user_head, wanted, fatal, handle_drops>>

\* line 57: rx.recv() returns the oldest message.
GenRecv ==
    /\ ~proc_exited
    /\ gen_pc = "recv"
    /\ chan # <<>>
    /\ last_msg' = Head(chan)
    /\ chan' = Tail(chan)
    /\ n_recv' = n_recv + 1
    /\ gen_pc' = "lock"
    /\ UNCHANGED <<cfg_vars, sink_vars,
                   wc_vars, pb_vars, hw_vars, cb_vars, n_sent,
                   tx_alive, shared, mutex, signal_next, getting, n_refill,
                   proc_exited>>

\* line 57: the channel is empty and the Sender is gone: rx.recv() returns
\* Err, unwrap panics in the main thread and the process terminates.
GenDisconnected ==
    /\ ~proc_exited
    /\ gen_pc = "recv"
    /\ chan = <<>>
    /\ ~tx_alive
    /\ gen_pc' = "panicked"
    /\ proc_exited' = TRUE
    /\ UNCHANGED <<cfg_vars, sink_vars,
                   wc_vars, pb_vars, hw_vars, cb_vars, n_sent,
                   tx_alive, shared, mutex, chan, signal_next, getting,
                   n_recv, last_msg, n_refill>>

\* Variant of GenLock: the generator goes on without taking the lock.
GenLock_skip ==
    /\ ~proc_exited
    /\ gen_pc = "lock"
    /\ getting' = Capacity(shared) - Length(shared)
    /\ gen_pc' = "push"
    /\ UNCHANGED <<cfg_vars, sink_vars,
                   wc_vars, pb_vars, hw_vars, cb_vars, n_sent,
                   tx_alive, shared, mutex, chan, signal_next,
                   n_recv, last_msg, n_refill, proc_exited>>

\* lines 61-62: buffer.lock(), then
\* getting = buffer.capacity() - buffer.len()
GenLock ==
    /\ ~proc_exited
    /\ gen_pc = "lock"
    /\ mutex = "free"
    /\ mutex' = "generator"
    /\ getting' = Capacity(shared) - Length(shared)
    /\ gen_pc' = "push"
    /\ UNCHANGED <<cfg_vars, sink_vars,
                   wc_vars, pb_vars, hw_vars, cb_vars, n_sent,
                   tx_alive, shared, chan, signal_next, n_recv,
                   last_msg, n_refill, proc_exited>>

\* Variant of GenPush: signal.next() is called once more than is pushed.
GenPush_skip ==
    /\ ~proc_exited
    /\ gen_pc = "push"
    /\ shared' = PushBackAll(shared, Synthesize(signal_next + 1, getting))
    /\ signal_next' = signal_next + getting + 1
    /\ n_refill' = n_refill + 1
    /\ getting' = 0
    /\ mutex' = "free"
    /\ gen_pc' = "recv"
    /\ UNCHANGED <<cfg_vars, sink_vars, wc_vars, pb_vars, hw_vars, cb_vars,
                   n_sent, tx_alive, chan, n_recv, last_msg, proc_exited>>

\* lines 64-68: getting samples are synthesized and pushed, then the
\* MutexGuard is dropped at the end of the match arm.
GenPush ==
    /\ ~proc_exited
    /\ gen_pc = "push"
    /\ shared' = PushBackAll(shared, Synthesize(signal_next, getting))
    /\ signal_next' = signal_next + getting
    /\ n_refill' = n_refill + 1
    /\ getting' = 0
    /\ mutex' = "free"
    /\ gen_pc' = "recv"
    /\ UNCHANGED <<cfg_vars, sink_vars,
                   wc_vars, pb_vars, hw_vars, cb_vars, n_sent,
                   tx_alive, chan, n_recv, last_msg, proc_exited>>

Playback ==
    \/ WithConfigOk
    \/ WithConfigErr
    \/ Prefill
    \/ WriteOk
    \/ WriteEagain
    \/ WaitReady
    \/ WaitFail
    \/ WriteError
    \/ CbDrain
    \/ CbSend
    \/ CbReturn

Generator ==
    \/ GenRecv
    \/ GenDisconnected
    \/ GenLock
    \/ GenPush

Next == Playback \/ Generator

Spec == Init /\ [][Next]_vars

\* Both threads are scheduled fairly; what the driver answers, and whether
\* it answers at all, is not under the program's control.
ProgramSteps ==
    \/ Prefill
    \/ CbDrain
    \/ CbSend
    \/ CbReturn

FairSpec == Spec /\ WF_vars(ProgramSteps) /\ WF_vars(Generator)

\* The program as main configures it: one channel (main.rs line 34).
MainInit == Init /\ channels = 1

FairMainSpec ==
    MainInit /\ [][Next]_vars /\ WF_vars(ProgramSteps) /\ WF_vars(Generator)

\* with_config from line 78 on, for every pair of sizes the driver may have
\* answered at lines 76-77: the handle is open, the hardware parameters
\* are committed and the sizes are read.
NegotiationInit ==
    /\ channels \in ChannelCounts
    /\ vd_slack \in 0..CapSlack
    /\ wc_step = 14
    /\ handle_open = TRUE
    /\ handle_drops = 0
    /\ hw_params = "alloc"
    /\ sw_params = "none"
    /\ hw_committed = TRUE
    /\ sw_committed = FALSE
    /\ prepared = FALSE
    /\ buffer_size \in 1..MaxFrames
    /\ period_size \in 1..MaxFrames
    /\ start_threshold = -1
    /\ avail_min = -1
    /\ pb_pc = "with_config"
    /\ user_buffer = WithCapacity(0, 0)
    /\ user_head = 0
    /\ wanted = 0
    /\ ret = 0
    /\ fatal = "none"
    /\ n_attempts = 0
    /\ n_ok = 0
    /\ n_eagain = 0
    /\ n_polls = 0
    /\ hw_accepted = <<>>
    /\ hw_oob = FALSE
    /\ cb_wanted = 0
    /\ cb_missing = 0
    /\ cb_calls = 0
    /\ n_sent = 0
    /\ tx_alive = TRUE
    /\ shared = InitialFill(vd_slack)
    /\ mutex = "free"
    /\ chan = <<>>
    /\ gen_pc = "recv"
    /\ signal_next = SharedSize
    /\ getting = 0
    /\ n_recv = 0
    /\ last_msg = 0
    /\ n_refill = 0
    /\ proc_exited = FALSE

NegotiationNext == WithConfigOk \/ WithConfigErr

NegotiationSpec == NegotiationInit /\ [][NegotiationNext]_vars

TypeOK ==
    /\ pb_pc \in {"with_config", "init_failed", "prefill", "cb_lock",
                  "cb_send", "cb_return", "write", "wait",
                  "panicked"}
    /\ gen_pc \in {"recv", "lock", "push", "panicked"}
    /\ mutex \in {"free", "playback", "generator"}
    /\ wc_step \in 1..NumSteps

(***************************************************************************)
(* Properties.                                                             *)
(***************************************************************************)
\* The playback thread is inside Device::run, the pre-fill call made.
InRun == pb_pc \in {"cb_lock", "cb_send", "cb_return", "write",
                    "wait", "panicked"}

\* C1: in every state of Device::run the staging buffer holds at most as
\* many samples as its capacity, and that capacity is still the one the
\* buffer was constructed with (the value run read into wanted).
C1_StagingWithinCapacity ==
    /\ Length(user_buffer) <= Capacity(user_buffer)
    /\ InRun => /\ Capacity(user_buffer) = wanted
                /\ Length(user_buffer) <= wanted

\* A full staging buffer after accepted writes, a would-block retry and
\* callbacks.
C1_Witness ==
    /\ pb_pc = "write"
    /\ n_ok >= 2
    /\ n_eagain >= 1
    /\ Length(user_buffer) = Capacity(user_buffer)

\* C2: a write that returns N >= 0 frames removes exactly the N front
\* samples of the staging buffer, the rest keeps its order, and the
\* callback is invoked once more with wanted = N.
C2_FifoDrain ==
    [][(pb_pc = "write" /\ pb_pc' = "cb_lock") =>
          /\ ret' \in 0..Length(user_buffer)
          /\ user_buffer'.buf =
               SubSeq(user_buffer.buf, ret' + 1, Length(user_buffer))
          /\ cb_calls' = cb_calls + 1
          /\ cb_wanted' = ret']_vars

\* A write took some but not all of the samples held.
C2_Witness ==
    /\ pb_pc = "cb_lock"
    /\ n_ok >= 1
    /\ ret >= 1
    /\ Length(user_buffer) >= 1

\* C3: up to the first snd_pcm_writei the callback is invoked at most once,
\* at the first write it has been invoked exactly once, and that
\* invocation asked for the capacity of the staging buffer.
C3_PrefillOnce ==
    n_attempts = 0 =>
        /\ cb_calls <= 1
        /\ pb_pc \in {"write"} => cb_calls = 1
        /\ cb_calls = 1 => cb_wanted = Capacity(user_buffer)

\* The thread is about to make its first write with spare capacity handed
\* out by the allocation.
C3_Witness ==
    /\ pb_pc = "write"
    /\ n_attempts = 0
    /\ Capacity(user_buffer) > buffer_size

\* C4: a write that returns -EAGAIN, and the wait that follows it, leave
\* the staging buffer as it is and invoke no callback; from the wait the
\* thread goes back to the write (or fails in the wait).
C4_WouldBlockRetry ==
    [][((pb_pc = "write" /\ pb_pc' = "wait") \/ pb_pc = "wait") =>
          /\ user_buffer' = user_buffer
          /\ cb_calls' = cb_calls
          /\ n_sent' = n_sent
          /\ pb_pc' \in {"wait", "write", "panicked"}
          /\ pb_pc' = "wait" => ret' = -EAGAIN]_vars

\* Back at the write after a would-block and a wait, with samples held.
C4_Witness ==
    /\ pb_pc = "write"
    /\ ret = -EAGAIN
    /\ n_polls >= 1
    /\ Length(user_buffer) >= 1

\* C5: the generator measures and pushes while it holds the lock, a refill
\* appends exactly capacity - length samples, and the shared buffer never
\* grows beyond the capacity it was constructed with.
C5_RefillWithinCapacity ==
    /\ [](gen_pc = "push" => mutex = "generator")
    /\ [][gen_pc = "push" /\ gen_pc' # "push" =>
            /\ getting = Capacity(shared) - Length(shared)
            /\ Length(shared') = Length(shared) + getting
            /\ Length(shared') = Capacity(shared)]_vars
    /\ [][Capacity(shared') = Capacity(shared)]_vars
    /\ [](Length(shared) <= Capacity(shared))

\* A refill that appended samples has completed after the playback thread
\* drained the shared buffer more than once.
C5_Witness ==
    /\ n_refill >= 1
    /\ signal_next > SharedSize
    /\ gen_pc = "recv"
    /\ cb_calls >= 2
    /\ Length(shared) = Capacity(shared)

\* C6: the samples offered to a write (frames handed to snd_pcm_writei
\* times the channel count) are at most the samples the staging buffer
\* holds.
C6_OfferedWithinHeld ==
    pb_pc = "write" => OfferedFrames * channels <= Length(user_buffer)

\* C7: after a fatal write or wait result the playback loop does nothing
\* more, and the process terminates.
C7_FatalTerminates ==
    /\ [][pb_pc = "panicked" =>
            UNCHANGED <<pb_pc, user_buffer, hw_vars, cb_vars, n_sent>>]_vars
    /\ [](fatal # "none" <=> pb_pc = "panicked")
    /\ (pb_pc = "panicked") ~> proc_exited

\* The process is gone after a failed wait, the pending notifications
\* having been served.
C7_Witness ==
    /\ proc_exited
    /\ fatal = "poll"
    /\ n_refill >= 1

\* C8: every callback invocation sends exactly one notification, after its
\* drain; the generator receives them in send order and does one refill
\* per notification received.
C8_OneNotificationPerCall ==
    /\ n_sent = IF pb_pc \in {"cb_lock", "cb_send"}
                THEN cb_calls - 1 ELSE cb_calls
    /\ n_refill = IF gen_pc \in {"lock", "push"}
                  THEN n_recv - 1 ELSE n_recv
    /\ last_msg = n_recv
    /\ chan = [i \in 1..(n_sent - n_recv) |-> n_recv + i]

\* A callback with wanted = 0 and one that found too few samples have
\* both been served.
C8_Witness ==
    /\ pb_pc = "write"
    /\ cb_wanted = 0
    /\ n_ok >= 2
    /\ n_refill = cb_calls

\* C9: a callback that finds fewer samples than wanted appends exactly the
\* samples there are behind the ones already held, takes them from the
\* shared buffer, and returns normally.
C9_PartialDrain ==
    [][(pb_pc = "cb_lock" /\ pb_pc' # "cb_lock"
          /\ Length(shared) < cb_wanted) =>
          /\ user_buffer'.buf = user_buffer.buf \o shared.buf
          /\ Length(user_buffer') < Length(user_buffer) + cb_wanted
          /\ Length(shared') = 0
          /\ cb_missing' = cb_wanted - Length(shared)
          /\ pb_pc' = "cb_send"
          /\ fatal' = "none"]_vars

\* After a callback that found too few samples the loop is back at the
\* write, with samples left in the staging buffer.
C9_Witness ==
    /\ pb_pc = "write"
    /\ cb_missing > 0
    /\ n_ok >= 1
    /\ Length(user_buffer) >= 1

\* C10: once with_config or run has ended, a handle that was opened has
\* been released exactly once.
C10_HandleReleasedOnce ==
    /\ handle_drops <= 1
    /\ (pb_pc \in {"init_failed", "panicked"} /\ handle_open)
          => handle_drops = 1

\* C11 as stated: every callback invocation asks for at most one period.
C11_WantedWithinPeriod ==
    cb_calls > 0 => cb_wanted <= period_size

\* C11: every callback invocation asks for at most the capacity of the
\* staging buffer: the pre-fill asks for the whole capacity, which is at
\* least buffer_size, and a call after a write asks for the frames that
\* write returned.
C11_WantedWithinCapacity ==
    cb_calls > 0 =>
        /\ cb_wanted <= Capacity(user_buffer)
        /\ Capacity(user_buffer) >= buffer_size
        /\ n_ok = 0 => cb_wanted = Capacity(user_buffer)
        /\ (n_ok > 0 /\ pb_pc \in {"cb_lock", "cb_send", "cb_return"})
              => cb_wanted = ret

\* A callback after a write is asked for more than a period.
C11_Witness ==
    /\ pb_pc = "cb_lock"
    /\ n_ok >= 1
    /\ cb_wanted > period_size

\* C12: snd_pcm_wait is called once per write that returned -EAGAIN (the
\* call of a thread still in the wait is not counted yet), the callback
\* once for the pre-fill and once per write that returned >= 0, and every
\* write returned one of the three results.
C12_PollAndCallbackCounts ==
    /\ n_polls = IF pb_pc = "wait" THEN n_eagain - 1 ELSE n_eagain
    /\ cb_calls = IF InRun THEN 1 + n_ok ELSE 0
    /\ n_attempts = n_ok + n_eagain + IF fatal = "write" THEN 1 ELSE 0

\* A would-block between two accepted writes.
C12_Witness ==
    /\ pb_pc = "write"
    /\ n_ok = 2
    /\ n_eagain = 1
    /\ n_polls = 1
    /\ cb_calls = 3

\* C13: every write offers the whole staging buffer: the frame count handed
\* to snd_pcm_writei is the staging buffer length.
C13_WholeBufferOffered ==
    pb_pc = "write" => OfferedFrames = Length(user_buffer)

\* C14: the playback thread does not hold the lock during a write or a
\* wait, and the generator does not hold it while it synthesizes samples.
C14_LockOnlyForAccess ==
    /\ [](pb_pc \in {"write", "wait"} => mutex # "playback")
    /\ [][signal_next' # signal_next => mutex # "generator"]_vars

\* Position of the device in Uninitialized (0), Negotiated (1),
\* Prepared (2), Running (3), Terminated (4).
Lifecycle ==
    IF pb_pc = "panicked" THEN 4
    ELSE IF InRun THEN 3
    ELSE IF prepared THEN 2
    ELSE IF hw_committed THEN 1
    ELSE 0

\* C15: the lifecycle moves forward one state at a time; the sizes are read
\* after the hardware parameters are committed, the software thresholds are
\* set and committed before prepare, no callback and no write happens before
\* prepare has succeeded, and after a failed call of with_config the thread
\* never runs the loop.
C15_LifecycleForward ==
    /\ [][Lifecycle' >= Lifecycle /\ Lifecycle' <= Lifecycle + 1]_vars
    /\ []((buffer_size > 0 \/ period_size > 0) => hw_committed)
    /\ [](prepared => /\ hw_committed
                      /\ sw_committed
                      /\ start_threshold >= 0
                      /\ avail_min >= 0)
    /\ [](sw_committed => start_threshold >= 0 /\ avail_min >= 0)
    /\ []((cb_calls > 0 \/ n_attempts > 0 \/ InRun) => prepared)
    /\ [](pb_pc = "init_failed" =>
             /\ ~prepared
             /\ cb_calls = 0
             /\ n_attempts = 0)
    /\ [][pb_pc = "init_failed" => pb_pc' = "init_failed"]_vars

\* The device went through every state: it ran, took a write and ended in
\* a fatal error.
C15_Witness ==
    /\ Lifecycle = 4
    /\ n_ok >= 1

\* C16: the start threshold handed to the driver is the largest multiple of
\* period_size that does not exceed buffer_size, which is not zero when
\* buffer_size >= period_size, and avail_min is period_size.
C16_Thresholds ==
    /\ start_threshold >= 0 =>
          /\ \E k \in 0..buffer_size : start_threshold = k * period_size
          /\ start_threshold <= buffer_size
          /\ start_threshold + period_size > buffer_size
          /\ buffer_size >= period_size => start_threshold > 0
    /\ avail_min >= 0 => avail_min = period_size

\* Both thresholds are set for a buffer of more than two periods that is
\* not a whole number of periods.
C16_Witness ==
    /\ start_threshold >= 0
    /\ avail_min >= 0
    /\ buffer_size > 2 * period_size
    /\ buffer_size % period_size # 0
    /\ period_size > 1

\* The first n samples of the signal.
SignalPrefix(n) == [i \in 1..n |-> i - 1]

\* C17: with one channel, the samples the hardware has accepted, followed
\* by the staging buffer and the shared buffer, are the samples synthesized
\* so far in the order of the signal; so what the hardware accepted is a
\* prefix of the signal, and the hardware never read past a slice.
C17_AcceptedIsSignalPrefix ==
    channels = 1 =>
        /\ hw_accepted \o user_buffer.buf \o shared.buf
              = SignalPrefix(signal_next)
        /\ hw_accepted = SignalPrefix(Len(hw_accepted))
        /\ ~hw_oob

\* With one channel the hardware accepted samples of a refill after a
\* callback that found too few.
C17_Witness ==
    /\ channels = 1
    /\ n_refill >= 1
    /\ Len(hw_accepted) > SharedSize
    /\ n_ok >= 2

\* Samples the staging buffer holds or is about to be topped up with: its
\* length, plus the count asked of a callback that has not yet drained.
StagingDemand ==
    Length(user_buffer) + IF pb_pc = "cb_lock" THEN cb_wanted ELSE 0

\* The pre-fill callback has drained.
PrefillDone == InRun /\ ~(pb_pc = "cb_lock" /\ n_ok = 0)

\* C18: once the pre-fill is done the staging buffer never holds more than
\* it held before, counted over a write and its top-up; a write from an
\* empty staging buffer offers 0 frames and is followed by a callback with
\* wanted = 0, so an empty staging buffer stays empty.
C18_StagingNeverRefills ==
    /\ [][PrefillDone => StagingDemand' <= StagingDemand]_vars
    /\ [][(PrefillDone /\ StagingDemand = 0) =>
             /\ Length(user_buffer') = 0
             /\ cb_calls' # cb_calls => (ret' = 0 /\ cb_wanted' = 0)]_vars
    /\ []((pb_pc = "write" /\ Length(user_buffer) = 0) => OfferedFrames = 0)

\* The staging buffer is empty after a callback with wanted = 0 although
\* the shared buffer has been refilled.
C18_Witness ==
    /\ pb_pc = "write"
    /\ Length(user_buffer) = 0
    /\ cb_wanted = 0
    /\ n_ok >= 2
    /\ Length(shared) = Capacity(shared)

====
